---- MODULE Spec2Model ----
(***************************************************************************)
(* Certichain backend: credential issuance, revocation and verification.   *)
(* The store is the `certificates` collection; a request handler holds a   *)
(* mongoose document (a private copy of the stored record plus the set of  *)
(* paths it has modified) between its awaits, and save() writes exactly    *)
(* the modified paths back.                                                *)
(***************************************************************************)
EXTENDS Integers, FiniteSets, Sequences, TLC

\* ------------------------------------------------------------------ bounds
\* Largest token id the ledger hands out (the mock draws from 0..9999).
MaxToken == 2
\* Number of verifications and lookups by access code served in one run.
MaxVerifications == 3
\* Longest scanned QR payload, in tokens (see QRTokens).
MaxQRLen == 3
\* Longest batch request, in items.
MaxBatch == 3

\* --------------------------------------------------------------- constants
\* Lengths of an ObjectId and of a SHA-256 digest in hex digits.
IdLen == 24
HashLen == 64

Undefined == 0 - 1
Null == "null"

\* The model follows the requests made on one credential, Cert.  The rest of
\* the collection is one other record, Other, whose unique keys a new record
\* can collide with.
Other == "other"
Cert == "cert"
CertIds == {Other, Cert}

Workers == {"w1", "w2"}

Statuses == {"PENDING", "MINTED", "VERIFIED", "REVOKED"}
TokenIds == 0..MaxToken
Hashes == {"h1", "h2"}
ApiCodes == {"CERT-1", "CERT-2"}
Reasons == {"fraud", "error"}

VARIABLES store, contract, iss, wk, out, recorded, qr, batch, bulk, auth, db

vars == <<store, contract, iss, wk, out, recorded, qr, batch, bulk, auth, db>>

\* ------------------------------------------------------------------ schema
Absent == [status |-> "ABSENT"]

\* A new Certificate(...) with the schema defaults.
NewCertificate(hash, code) ==
  [status |-> "PENDING", tokenId |-> Undefined,
   transactionHash |-> Null, blockNumber |-> Undefined,
   certificateHash |-> hash, apiCode |-> code,
   verificationLink |-> Null, qrCode |-> Null,
   revocationReason |-> Null,
   verificationCount |-> 0, lastVerified |-> Null]

Exists(c) == store[c] # Absent

\* JavaScript truthiness of a tokenId: undefined and 0 are both falsy.
Truthy(t) == t # Undefined /\ t # 0

\* Unique indexes of the collection: tokenId (sparse), apiCode,
\* blockchain.certificateHash.  Would writing `rec` as document c violate one?
DuplicateKey(c, rec) ==
  \E d \in CertIds \ {c} :
     /\ store[d] # Absent
     /\ \/ rec.tokenId # Undefined /\ store[d].tokenId = rec.tokenId
        \/ store[d].apiCode = rec.apiCode
        \/ store[d].certificateHash = rec.certificateHash

\* document.save() of an existing document: $set of the modified paths only.
Save_WholeDocument(old, doc, dirty) == doc

Save(old, doc, dirty) ==
  [f \in DOMAIN old |-> IF f \in dirty THEN doc[f] ELSE old[f]]

\* ------------------------------------------------------------ ledger client
\* What blockchainService.mintCertificate can return.  Without a contract
\* the mock draws a random token; with a contract the token comes from the
\* CertificateIssued event and is undefined when the event is missing.
MintResults ==
  [tokenId : IF contract THEN TokenIds \cup {Undefined} ELSE TokenIds,
   transactionHash : {"0xtx"}, blockNumber : {7}]

\* ------------------------------------------------------------ initial state
\* The other record: issued and anchored earlier, token 1.
OtherRecord ==
  [NewCertificate("h1", "CERT-1") EXCEPT
     !.status = "MINTED", !.tokenId = 1,
     !.transactionHash = "0xtx", !.blockNumber = 7,
     !.verificationLink = "link", !.qrCode = "qr"]

\* Cert either is issued during the run or is already in the collection
\* with the one status of the schema's enum that no handler writes, as a
\* record written without a tokenId (as seedSampleData.js writes them).
VerifiedRecord ==
  [NewCertificate("h2", "CERT-2") EXCEPT
     !.status = "VERIFIED",
     !.transactionHash = "0xtx", !.blockNumber = 7,
     !.verificationLink = "link", !.qrCode = "qr"]

NoResp == [code |-> 0, success |-> FALSE, warning |-> FALSE]
IdleIssue ==
  [pc |-> "idle", doc |-> Absent, dirty |-> {}, mint |-> "none",
   mintCalls |-> 0, attempts |-> 0, outage |-> FALSE, resp |-> NoResp]
\* The response a verify / lookup / revoke handler sends in the current step.
NoReply ==
  [kind |-> "none", cert |-> Cert, code |-> 0, isValid |-> FALSE,
   verificationCount |-> 0, status |-> "none", sig |-> "none"]
IdleWorker ==
  [pc |-> "idle", kind |-> "none", cert |-> Cert, doc |-> Absent]
\* The QR payload being encoded, scanned and decoded (used by CodecSpec).
NoResult == [type |-> "none", value |-> <<>>, isValid |-> FALSE]
NoQR ==
  [pc |-> "none", enc |-> "none", src |-> <<>>, data |-> <<>>,
   result |-> NoResult, triedId |-> FALSE, found |-> "none"]
\* A batch request (verification or issuance): the items of the request
\* body, the index of the item being processed and the results so far.
NoBatch == [pc |-> "idle", items |-> <<>>, next |-> 1, results |-> <<>>]

\* A college document as populate('college') returns it (part_006 line 15
\* seeds 'TEST01'); `Ref(college)` is the ObjectId a certificate stores.
Colleges == { [id |-> "c1", code |-> "TEST01"], [id |-> "c2", code |-> "MIT01"] }
Ref(college) == [id |-> college.id]

\* POST batch/issue before a request: no issuer, nothing inserted.
NoBulk ==
  [pc |-> "idle", college |-> Ref([id |-> "none"]), items |-> <<>>,
   next |-> 1, results |-> <<>>, created |-> <<>>]

\* AuthController: loginAttempts (one entry per key, count 0 standing for no
\* entry), the clock in minutes, the login handlers in flight and the last
\* answer.  `failed` is history: per key, the failures recorded since the
\* entry was last deleted and the time of the last of them.
MaxAttempts == 5
LockoutTime == 15
AuthKeys == {"k1", "k2"}
Sessions == {"s1", "s2"}
NoAttempts == [count |-> 0, lastAttempt |-> 0]
IdleSession == [pc |-> "idle", key |-> "k1"]
NoAnswer == [key |-> "k1", result |-> "none"]
NoAuth ==
  [attempts |-> [k \in AuthKeys |-> NoAttempts],
   failed |-> [k \in AuthKeys |-> NoAttempts],
   now |-> 0,
   ses |-> [s \in Sessions |-> IdleSession],
   resp |-> NoAnswer]

\* DatabaseConfig after construction (part_005 lines 64-69).  `listeners`
\* counts the handler sets registered on mongoose.connection, `timers` the
\* pending reconnect timeouts; `last` is history: the last event or connect,
\* connectionRetries before and after it and the reconnects it scheduled.
MaxRetries == 5
NoEvent == [event |-> "none", before |-> 0, after |-> 0, scheduled |-> 0]
NoDb ==
  [connection |-> "null", connectionRetries |-> 0, listeners |-> 0,
   timers |-> 0, last |-> NoEvent]

Init ==
  /\ store \in { [c \in CertIds |-> IF c = Other THEN OtherRecord ELSE r] :
                 r \in {Absent, VerifiedRecord} }
  /\ contract \in BOOLEAN
  /\ iss = IdleIssue
  /\ wk = [w \in Workers |-> IdleWorker]
  /\ out = NoReply
  /\ recorded = [verify |-> 0, lookup |-> 0]
  /\ qr = NoQR
  /\ batch = NoBatch
  /\ bulk = NoBulk
  /\ auth = NoAuth
  /\ db = NoDb

\* --------------------------------------------------------- issueCertificate
IssueResp(code, success, warning) ==
  [code |-> code, success |-> success, warning |-> warning]

\* Lines 15-64: what the handler leaves in the collection for a new
\* document: nothing when the issuer has no college (return of line 17) or
\* when the one save() of line 64 is rejected by a unique index.
FirstSave_BeforeCheck(associated, doc) ==
  IF ~DuplicateKey(Cert, doc) THEN doc ELSE Absent

FirstSave(associated, doc) ==
  IF associated /\ ~DuplicateKey(Cert, doc) THEN doc ELSE Absent

\* Lines 9-64: association check, build the document, first save.  The
\* save is attempted once; its rejection is answered by the catch of line
\* 117.  `attempts` counts the save() calls of line 64.
IssueStart ==
  /\ iss.pc = "idle"
  /\ ~Exists(Cert)
  /\ \E associated \in BOOLEAN, hash \in Hashes, code \in ApiCodes :
       LET doc == NewCertificate(hash, code)
           saved == FirstSave(associated, doc) IN
       /\ store' = [store EXCEPT ![Cert] = saved]
       /\ iss' = IF ~associated
                 THEN [iss EXCEPT !.pc = "done",
                                  !.resp = IssueResp(400, FALSE, FALSE)]
                 ELSE IF saved = Absent
                 THEN [iss EXCEPT !.pc = "done", !.attempts = 1,
                                  !.resp = IssueResp(500, FALSE, FALSE)]
                 ELSE [iss EXCEPT !.pc = "saved", !.attempts = 1,
                                  !.doc = doc]
  /\ out' = NoReply
  /\ UNCHANGED <<contract, wk, recorded, qr, batch, bulk, auth, db>>

\* Lines 69-70: link and QR code are set on the document.
LinkedDoc_Recode(doc) ==
  [doc EXCEPT !.qrCode = "qr", !.verificationLink = "link",
              !.apiCode = "CERT-0"]

LinkedDoc(doc) ==
  [doc EXCEPT !.qrCode = "qr", !.verificationLink = "link"]

\* Lines 66-71: render the QR code, then save link and QR code.
IssueLink ==
  /\ iss.pc = "saved"
  /\ \E qrOk \in BOOLEAN :
       IF ~qrOk
       THEN /\ iss' = [iss EXCEPT !.pc = "done",
                                  !.resp = IssueResp(500, FALSE, FALSE)]
            /\ UNCHANGED store
       ELSE LET doc == LinkedDoc(iss.doc)
                dirty == { f \in DOMAIN doc : doc[f] # iss.doc[f] } IN
            /\ store' = [store EXCEPT
                           ![Cert] = Save(store[Cert], doc, dirty)]
            /\ iss' = [iss EXCEPT !.pc = "linked", !.doc = doc]
  /\ out' = NoReply
  /\ UNCHANGED <<contract, wk, recorded, qr, batch, bulk, auth, db>>

\* Line 75: the mint call is issued; the handler awaits the ledger.
\* `mintCalls` counts the calls of blockchainService.mintCertificate.
IssueMintCall_BeforeLink ==
  /\ iss.pc = "saved"
  /\ iss' = [iss EXCEPT !.pc = "minting", !.mint = "calling",
                        !.mintCalls = @ + 1]
  /\ out' = NoReply
  /\ UNCHANGED <<store, contract, wk, recorded, qr, batch, bulk, auth, db>>

IssueMintCall ==
  /\ iss.pc = "linked"
  /\ iss' = [iss EXCEPT !.pc = "minting", !.mint = "calling",
                        !.mintCalls = @ + 1]
  /\ out' = NoReply
  /\ UNCHANGED <<store, contract, wk, recorded, qr, batch, bulk, auth, db>>

\* Lines 81-84: the mint result is copied onto the document.
MintedDoc_WrongStatus(doc, r) ==
  [doc EXCEPT !.tokenId = r.tokenId,
              !.transactionHash = r.transactionHash,
              !.blockNumber = r.blockNumber,
              !.status = "VERIFIED"]

MintedDoc(doc, r) ==
  [doc EXCEPT !.tokenId = r.tokenId,
              !.transactionHash = r.transactionHash,
              !.blockNumber = r.blockNumber,
              !.status = "MINTED"]

\* mintCertificate returns and the handler resumes at line 81.
LedgerMintOk ==
  /\ iss.pc = "minting"
  /\ \E r \in MintResults :
       iss' = [iss EXCEPT
                 !.pc = "minted", !.mint = "ok",
                 !.doc = MintedDoc(iss.doc, r),
                 !.dirty = {"transactionHash", "blockNumber", "status"}
                           \cup (IF r.tokenId # Undefined
                                 THEN {"tokenId"} ELSE {})]
  /\ out' = NoReply
  /\ UNCHANGED <<store, contract, wk, recorded, qr, batch, bulk, auth, db>>

\* mintCertificate throws (only a real contract can: rejected, unreachable).
LedgerMintFail ==
  /\ iss.pc = "minting"
  /\ contract
  /\ iss' = [iss EXCEPT !.pc = "catch", !.mint = "failed"]
  /\ out' = NoReply
  /\ UNCHANGED <<store, contract, wk, recorded, qr, batch, bulk, auth, db>>

\* Lines 85-98: save the anchored document and answer 201.  A save that is
\* rejected (duplicate tokenId, store outage) throws into the catch block
\* of line 99.
IssueSaveMinted ==
  /\ iss.pc = "minted"
  /\ \E storeOk \in BOOLEAN :
       IF DuplicateKey(Cert, Save(store[Cert], iss.doc, iss.dirty))
          \/ ~storeOk
       THEN /\ iss' = [iss EXCEPT !.pc = "catch",
                                  !.outage = iss.outage \/ ~storeOk]
            /\ UNCHANGED store
       ELSE /\ store' = [store EXCEPT
                           ![Cert] = Save(store[Cert], iss.doc, iss.dirty)]
            /\ iss' = [iss EXCEPT !.pc = "done", !.dirty = {},
                                  !.resp = IssueResp(201, TRUE, FALSE)]
  /\ out' = NoReply
  /\ UNCHANGED <<contract, wk, recorded, qr, batch, bulk, auth, db>>

\* Lines 99-116: set PENDING, save again, answer 201 with a warning; a save
\* that throws here reaches the outer catch of line 117.  Whether a status
\* set back to its stored value stays a modified path depends on the
\* mongoose release, so both are possible.
IssueCatchSave ==
  /\ iss.pc = "catch"
  /\ \E storeOk \in BOOLEAN, keepStatus \in BOOLEAN :
       LET doc == [iss.doc EXCEPT !.status = "PENDING"]
           dirty == IF keepStatus THEN iss.dirty ELSE iss.dirty \ {"status"}
       IN
       IF dirty = {}
       THEN /\ iss' = [iss EXCEPT !.pc = "done", !.doc = doc, !.dirty = {},
                                  !.resp = IssueResp(201, TRUE, TRUE)]
            /\ UNCHANGED store
       ELSE IF DuplicateKey(Cert, Save(store[Cert], doc, dirty))
               \/ ~storeOk
       THEN /\ iss' = [iss EXCEPT !.pc = "done", !.doc = doc,
                                  !.outage = iss.outage \/ ~storeOk,
                                  !.resp = IssueResp(500, FALSE, FALSE)]
            /\ UNCHANGED store
       ELSE /\ store' = [store EXCEPT
                           ![Cert] = Save(store[Cert], doc, dirty)]
            /\ iss' = [iss EXCEPT !.pc = "done", !.doc = doc, !.dirty = {},
                                  !.resp = IssueResp(201, TRUE, TRUE)]
  /\ out' = NoReply
  /\ UNCHANGED <<contract, wk, recorded, qr, batch, bulk, auth, db>>

\* ------------------------------------------------- verification and lookup
VerifyKinds == {"verifyById", "verifyByHash", "verifyByQR"}
Kinds == VerifyKinds \cup {"apiCode", "revoke"}

Reply(kind, c, code, isValid, count, status, sig) ==
  [kind |-> kind, cert |-> c, code |-> code, isValid |-> isValid,
   verificationCount |-> count, status |-> status, sig |-> sig]

RecordingKinds == VerifyKinds \cup {"apiCode"}

\* Verifications still to be admitted: those recorded and those holding a
\* loaded document count against MaxVerifications.
Budget ==
  MaxVerifications
  - (recorded.verify + recorded.lookup)
  - Cardinality({ w \in Workers :
                    wk[w].pc = "loaded" /\ wk[w].kind \in RecordingKinds })

\* A request on credential c is in flight: it holds a loaded document.
InFlight ==
  \/ iss.pc \notin {"idle", "done"}
  \/ \E w \in Workers : wk[w].pc = "loaded"

\* The copy of the record a verify / lookup / revoke handler works on.  These
\* handlers read and write tokenId, status, the fingerprint, the access
\* code, the revocation reason and the verification fields only; the paths
\* they never touch are not followed in the copy (save() leaves them alone).
Loaded(rec) ==
  [rec EXCEPT !.transactionHash = Null, !.blockNumber = Undefined,
              !.verificationLink = Null, !.qrCode = Null]

\* findById / findOne of verify.controller.js lines 9, 74, 139-147, of
\* getCertificateByApiCode line 208 and of revokeCertificate line 288: the
\* handler gets its own copy of the stored record, or answers 404.
Load(w, kind, c) ==
  /\ wk[w].pc = "idle"
  /\ kind \in RecordingKinds => Budget > 0
  /\ IF ~Exists(c)
     THEN /\ out' = Reply(kind, c, 404, FALSE, 0, "none", "none")
          /\ UNCHANGED wk
     ELSE /\ wk' = [wk EXCEPT ![w] =
                      [pc |-> "loaded", kind |-> kind, cert |-> c,
                       doc |-> Loaded(store[c])]]
          /\ out' = NoReply
  /\ UNCHANGED <<store, contract, iss, recorded, qr, batch, bulk, auth, db>>

\* The ledger cross-check made by a verification (lines 21-29, 87-92,
\* 158-165): the signals the handler can end up with.  "error" is a call
\* that threw and was swallowed.
Signals(kind, doc) ==
  IF kind = "verifyByHash"
  THEN IF contract THEN {"valid", "invalid", "error"} ELSE {"error"}
  ELSE IF ~Truthy(doc.tokenId) THEN {"none"}
  ELSE IF contract THEN {"valid", "invalid", "error"} ELSE {"valid"}

NoSignal_OnlyNone(sig) == sig = "none"

NoSignal(sig) == sig \in {"none", "error"}

\* Lines 33-34, 96-97, 169-170.
IsValid_NotRevoked(status, sig) ==
  status # "REVOKED" /\ (NoSignal(sig) \/ sig = "valid")

IsValid(status, sig) ==
  status = "MINTED" /\ (NoSignal(sig) \/ sig = "valid")

\* certificateSchema.methods.recordVerification: bump the count on the
\* handler's copy and save it.
RecordVerification_NoIncrement(doc) ==
  [doc EXCEPT !.lastVerified = "set"]

RecordVerification(doc) ==
  [doc EXCEPT !.verificationCount = doc.verificationCount + 1,
              !.lastVerified = "set"]

\* Rest of a verification: ledger cross-check, recordVerification, answer.
VerifyFinish(w) ==
  /\ wk[w].pc = "loaded"
  /\ wk[w].kind \in VerifyKinds
  /\ \E sig \in Signals(wk[w].kind, wk[w].doc) :
       LET c == wk[w].cert
           doc == RecordVerification(wk[w].doc) IN
       /\ store' = [store EXCEPT ![c] =
                      Save(store[c], doc, {"verificationCount", "lastVerified"})]
       /\ out' = Reply(wk[w].kind, c, 200, IsValid(doc.status, sig),
                       doc.verificationCount, doc.status, sig)
       /\ recorded' = [recorded EXCEPT !.verify = recorded.verify + 1]
  /\ wk' = [wk EXCEPT ![w] = IdleWorker]
  /\ UNCHANGED <<contract, iss, qr, batch, bulk, auth, db>>

\* Rest of getCertificateByApiCode (lines 219-225).
ApiCodeFinish(w) ==
  /\ wk[w].pc = "loaded"
  /\ wk[w].kind = "apiCode"
  /\ LET c == wk[w].cert
         doc == RecordVerification(wk[w].doc) IN
     /\ store' = [store EXCEPT ![c] =
                    Save(store[c], doc, {"verificationCount", "lastVerified"})]
     /\ out' = Reply("apiCode", c, 200, FALSE, doc.verificationCount,
                     doc.status, "none")
     /\ recorded' = [recorded EXCEPT !.lookup = recorded.lookup + 1]
  /\ wk' = [wk EXCEPT ![w] = IdleWorker]
  /\ UNCHANGED <<contract, iss, qr, batch, bulk, auth, db>>

\* -------------------------------------------------------- revokeCertificate
\* Lines 296-316 with req.body.reason = reason.
\* blockchainService.revokeCertificate throws without a contract and may
\* throw with one; the throw reaches the catch of line 310.
Revoke(w, reason) ==
  /\ wk[w].pc = "loaded"
  /\ wk[w].kind = "revoke"
  /\ \E ledgerOk \in (IF contract THEN BOOLEAN ELSE {FALSE}) :
       LET c == wk[w].cert
           old == wk[w].doc
           doc == [old EXCEPT !.status = "REVOKED",
                              !.revocationReason = reason]
           dirty == { f \in {"status", "revocationReason"} : doc[f] # old[f] }
       IN
       IF Truthy(old.tokenId) /\ ~ledgerOk
       THEN /\ out' = Reply("revoke", c, 500, FALSE, 0, "none", "none")
            /\ UNCHANGED store
       ELSE /\ store' = [store EXCEPT ![c] = Save(store[c], doc, dirty)]
            /\ out' = Reply("revoke", c, 200, FALSE, 0, "REVOKED", "none")
  /\ wk' = [wk EXCEPT ![w] = IdleWorker]
  /\ UNCHANGED <<contract, iss, recorded, qr, batch, bulk, auth, db>>

\* Reasons are free text the handler never inspects: revocations carry the
\* first reason ...
RevokeFinish(w) ==
  /\ wk[w].pc = "loaded"
  /\ Revoke(w, "fraud")

\* ... except a revocation of a record that is already REVOKED, which may
\* carry another one.
RevokeAgain(w) ==
  /\ wk[w].doc.status = "REVOKED"
  /\ \E reason \in Reasons \ {"fraud"} : Revoke(w, reason)

\* Once its record is found a verification by QR payload continues exactly
\* as one by identifier (lines 157-170 repeat lines 20-34), so the runs with
\* overlapping requests draw their verifications from the other two kinds.
ConcurrentKinds == Kinds \ {"verifyByQR"}

Next ==
  \/ IssueStart
  \/ IssueLink
  \/ IssueMintCall
  \/ LedgerMintOk
  \/ LedgerMintFail
  \/ IssueSaveMinted
  \/ IssueCatchSave
  \/ \E w \in Workers, kind \in ConcurrentKinds : Load(w, kind, Cert)
  \/ \E w \in Workers : VerifyFinish(w)
  \/ \E w \in Workers : ApiCodeFinish(w)
  \/ \E w \in Workers : RevokeFinish(w)

Spec == Init /\ [][Next]_vars

\* Requests on the credential served one at a time: a handler loads the
\* record only when no other request on it is in flight.
SerialLoad(w, kind) ==
  /\ ~InFlight
  /\ Load(w, kind, Cert)

SerialNext ==
  \/ IssueStart
  \/ IssueLink
  \/ IssueMintCall
  \/ LedgerMintOk
  \/ LedgerMintFail
  \/ IssueSaveMinted
  \/ IssueCatchSave
  \/ \E w \in Workers, kind \in Kinds : SerialLoad(w, kind)
  \/ \E w \in Workers : VerifyFinish(w)
  \/ \E w \in Workers : ApiCodeFinish(w)
  \/ \E w \in Workers : RevokeFinish(w)
  \/ \E w \in Workers : RevokeAgain(w)

SerialSpec == Init /\ [][SerialNext]_vars

\* The event loop runs every continuation of a handler that is ready, and
\* the mock ledger always answers; a real ledger owes no answer.
FairSpec ==
  /\ Spec
  /\ WF_vars(IssueLink)
  /\ WF_vars(IssueMintCall)
  /\ WF_vars(IssueSaveMinted)
  /\ WF_vars(IssueCatchSave)
  /\ WF_vars(~contract /\ LedgerMintOk)
  /\ \A w \in Workers :
       WF_vars(VerifyFinish(w) \/ ApiCodeFinish(w) \/ RevokeFinish(w))

\* ------------------------------------------------------------ QR payloads
\* A string is a sequence of tokens: a run of hex digits of a given length
\* (named, so that two runs of the same length can differ) or a piece of
\* literal text holding no hex digit run the patterns could match.
Hex(n, name) == [hex |-> n, text |-> name]
Lit(text) == [hex |-> 0, text |-> text]

BaseUrl == <<Lit("http://localhost:3000")>>
VerifyPath == Lit("/verify/")
HashPath == Lit("hash/")

RECURSIVE HexLen(_)
HexLen(s) == IF s = <<>> THEN 0 ELSE Head(s).hex + HexLen(Tail(s))

\* /^[0-9a-fA-F]{n}$/ : the whole string is exactly n hex digits.
IsHex(s, n) ==
  /\ \A i \in 1..Len(s) : s[i].hex > 0
  /\ HexLen(s) = n

\* certificate._id and blockchain.certificateHash as strings.
IdString(c) == <<Hex(IdLen, c)>>
HashString(h) == <<Hex(HashLen, h)>>

\* qr.service.js generateQRCode: the string rendered into the QR image.
GenerateQRCode(certificateId) == BaseUrl \o <<VerifyPath>> \o certificateId

\* qr.service.js generateHashQRCode: verificationUrl.
GenerateHashQRCode_NoPrefix(certificateHash) ==
  BaseUrl \o <<VerifyPath>> \o certificateHash

GenerateHashQRCode(certificateHash) ==
  BaseUrl \o <<VerifyPath, HashPath>> \o certificateHash

\* issueCertificate lines 67-68: the verification link, and the string the
\* stored QR code holds (generateQRCode is handed the link, not the id).
VerificationLink(id) == BaseUrl \o <<VerifyPath>> \o id
IssuedQRData(id) == GenerateQRCode(VerificationLink(id))

\* Positions where /\/verify\/([a-fA-F0-9]{24}|hash\/[a-fA-F0-9]{64})$/
\* matches.
UrlMatches(s) ==
  { i \in 1..Len(s) :
      /\ s[i] = VerifyPath
      /\ \/ IsHex(SubSeq(s, i + 1, Len(s)), IdLen)
         \/ /\ i + 1 <= Len(s)
            /\ s[i + 1] = HashPath
            /\ IsHex(SubSeq(s, i + 2, Len(s)), HashLen) }

QRResult(type, value, isValid) ==
  [type |-> type, value |-> value, isValid |-> isValid]

\* qr.service.js validateQRData.
ValidateQRData_NoHashBranch(qrData) ==
  IF IsHex(qrData, IdLen)
  THEN QRResult("certificateId", qrData, TRUE)
  ELSE IF UrlMatches(qrData) # {}
  THEN LET i == CHOOSE m \in UrlMatches(qrData) :
                  \A k \in UrlMatches(qrData) : m <= k
           path == SubSeq(qrData, i + 1, Len(qrData))
       IN IF Head(path) = HashPath
          THEN QRResult("certificateHash", Tail(path), TRUE)
          ELSE QRResult("certificateId", path, TRUE)
  ELSE QRResult("unknown", qrData, FALSE)

ValidateQRData(qrData) ==
  IF IsHex(qrData, IdLen)
  THEN QRResult("certificateId", qrData, TRUE)
  ELSE IF IsHex(qrData, HashLen)
  THEN QRResult("certificateHash", qrData, TRUE)
  ELSE IF UrlMatches(qrData) # {}
  THEN LET i == CHOOSE m \in UrlMatches(qrData) :
                  \A k \in UrlMatches(qrData) : m <= k
           path == SubSeq(qrData, i + 1, Len(qrData))
       IN IF Head(path) = HashPath
          THEN QRResult("certificateHash", Tail(path), TRUE)
          ELSE QRResult("certificateId", path, TRUE)
  ELSE QRResult("unknown", qrData, FALSE)

\* Certificate.findById and findOne({'blockchain.certificateHash': ...}).
FindById(s) ==
  IF \E c \in CertIds : Exists(c) /\ IdString(c) = s
  THEN CHOOSE c \in CertIds : Exists(c) /\ IdString(c) = s
  ELSE "none"

FindByHash(s) ==
  IF \E c \in CertIds :
       Exists(c) /\ HashString(store[c].certificateHash) = s
  THEN CHOOSE c \in CertIds :
         Exists(c) /\ HashString(store[c].certificateHash) = s
  ELSE "none"

\* verifyByQRCode lines 136-148: the record the handler goes on with.
VerifyByQRFind(qrData) ==
  LET byId == IF IsHex(qrData, IdLen) THEN FindById(qrData) ELSE "none"
  IN IF byId # "none" THEN byId ELSE FindByHash(qrData)

\* Tokens the scanned payloads are made of; the 40-digit run completes an
\* identifier to the length of a fingerprint.
QRTokens ==
  { Hex(IdLen, Cert), Hex(HashLen - IdLen, "pad"), Hex(HashLen, "h2"),
    VerifyPath, HashPath, Lit("x") }

QRInputs == UNION { [1..n -> QRTokens] : n \in 1..MaxQRLen }

\* Either a payload is scanned as it comes, or an identifier or fingerprint
\* is first encoded the way the service encodes it.
CodecInit ==
  /\ store = [c \in CertIds |->
                IF c = Other THEN OtherRecord ELSE VerifiedRecord]
  /\ contract = FALSE
  /\ iss = IdleIssue
  /\ wk = [w \in Workers |-> IdleWorker]
  /\ out = NoReply
  /\ recorded = [verify |-> 0, lookup |-> 0]
  /\ batch = NoBatch
  /\ bulk = NoBulk
  /\ auth = NoAuth
  /\ db = NoDb
  /\ qr \in { [NoQR EXCEPT !.pc = "scan", !.enc = "raw", !.data = s] :
                s \in QRInputs }
            \cup { [NoQR EXCEPT !.pc = "src", !.enc = e, !.src = IdString(c)] :
                     e \in {"id", "issue"}, c \in CertIds }
            \cup { [NoQR EXCEPT !.pc = "src", !.enc = "hash",
                                !.src = HashString(h)] : h \in Hashes }

EncodeId ==
  /\ qr.pc = "src" /\ qr.enc = "id"
  /\ qr' = [qr EXCEPT !.pc = "scan", !.data = GenerateQRCode(qr.src)]
  /\ UNCHANGED <<store, contract, iss, wk, out, recorded, batch, bulk, auth, db>>

EncodeHash ==
  /\ qr.pc = "src" /\ qr.enc = "hash"
  /\ qr' = [qr EXCEPT !.pc = "scan", !.data = GenerateHashQRCode(qr.src)]
  /\ UNCHANGED <<store, contract, iss, wk, out, recorded, batch, bulk, auth, db>>

EncodeIssued ==
  /\ qr.pc = "src" /\ qr.enc = "issue"
  /\ qr' = [qr EXCEPT !.pc = "scan", !.data = IssuedQRData(qr.src)]
  /\ UNCHANGED <<store, contract, iss, wk, out, recorded, batch, bulk, auth, db>>

Validate ==
  /\ qr.pc = "scan"
  /\ qr' = [qr EXCEPT !.pc = "validated", !.result = ValidateQRData(qr.data)]
  /\ UNCHANGED <<store, contract, iss, wk, out, recorded, batch, bulk, auth, db>>

\* verifyByQRCode up to the 404 of line 150.
QRLookup ==
  /\ qr.pc = "scan"
  /\ qr' = [qr EXCEPT !.pc = "lookup",
                      !.triedId = IsHex(qr.data, IdLen),
                      !.found = VerifyByQRFind(qr.data)]
  /\ UNCHANGED <<store, contract, iss, wk, out, recorded, batch, bulk, auth, db>>

CodecNext ==
  \/ EncodeId
  \/ EncodeHash
  \/ EncodeIssued
  \/ Validate
  \/ QRLookup

CodecSpec == CodecInit /\ [][CodecNext]_vars


\* ------------------------------------------------------ batch verification
\* verify.routes.js lines 72-142.  The validator admits strings of 24 or 64
\* hex digits only; the handler verifies the items one after the other.
BatchItems ==
  { IdString(Other), HashString("h1"), IdString(Cert), HashString("h2") }

BatchLists == UNION { [1..n -> BatchItems] : n \in 1..MaxBatch }

\* Line 94: 64 hex digits go to verifyCertificateByHash, anything else to
\* verifyCertificateById.
BatchKind(item) ==
  IF IsHex(item, HashLen) THEN "verifyByHash" ELSE "verifyById"

BatchTarget(item) ==
  IF IsHex(item, HashLen) THEN FindByHash(item) ELSE FindById(item)

\* Lines 114-125: the entry pushed for an item.
BatchEntry(item, success, isValid, count) ==
  [identifier |-> item, success |-> success, isValid |-> isValid,
   verificationCount |-> count]

\* The loop goes on to the next item after pushing the entry.
AfterItem_SkipFailed(b, entry) ==
  [b EXCEPT !.results = IF entry.success THEN Append(@, entry) ELSE @,
            !.next = @ + 1]

AfterItem(b, entry) ==
  [b EXCEPT !.results = Append(@, entry), !.next = @ + 1]

BatchVerifyStart ==
  /\ batch.pc = "idle"
  /\ \E items \in BatchLists :
       batch' = [NoBatch EXCEPT !.pc = "run", !.items = items]
  /\ UNCHANGED <<store, contract, iss, wk, out, recorded, qr, bulk, auth, db>>

\* One turn of the loop (lines 91-126): the controller method answers
\* through json (resolve) or through status().json (reject: 404 when the
\* record is not found, 500 when the handler threw, as when the save of
\* recordVerification fails).
BatchVerifyItem ==
  /\ batch.pc = "run"
  /\ batch.next <= Len(batch.items)
  /\ LET item == batch.items[batch.next]
         c == BatchTarget(item)
     IN
     IF c = "none"
     THEN /\ batch' = AfterItem(batch, BatchEntry(item, FALSE, FALSE, 0))
          /\ UNCHANGED store
     ELSE \E sig \in Signals(BatchKind(item), store[c]), storeOk \in BOOLEAN :
            LET doc == RecordVerification(store[c]) IN
            IF ~storeOk
            THEN /\ batch' = AfterItem(batch, BatchEntry(item, FALSE, FALSE, 0))
                 /\ UNCHANGED store
            ELSE /\ store' = [store EXCEPT ![c] =
                               Save(store[c], doc,
                                    {"verificationCount", "lastVerified"})]
                 /\ batch' = AfterItem(batch,
                               BatchEntry(item, TRUE, IsValid(doc.status, sig),
                                          doc.verificationCount))
  /\ UNCHANGED <<contract, iss, wk, out, recorded, qr, bulk, auth, db>>

\* Lines 128-132: the response with the results.
BatchVerifyRespond ==
  /\ batch.pc = "run"
  /\ batch.next > Len(batch.items)
  /\ batch' = [batch EXCEPT !.pc = "done"]
  /\ UNCHANGED <<store, contract, iss, wk, out, recorded, qr, bulk, auth, db>>

BatchNext ==
  \/ BatchVerifyStart
  \/ BatchVerifyItem
  \/ BatchVerifyRespond

BatchSpec == Init /\ [][BatchNext]_vars

\* ---- POST batch/issue (certificate.routes.js 170-212) ----
\* An item either carries studentData and academicData next to the fields
\* the route validates, or carries the validated fields only.
BulkItems == {"full", "validatedOnly"}
BulkLists == UNION { [1..n -> BulkItems] : n \in 1..MaxBatch }

\* generateApiCode: <college code>-<year>-<time>-<random>; the college code
\* is read from this.college, which holds what the constructor was given.
GenerateApiCode(college) ==
  [org |-> IF "code" \in DOMAIN college THEN college.code ELSE "CERT",
   year |-> "year", time |-> "time", random |-> "random"]

\* The response object the route hands to issueCertificate: json and
\* status(..).json both push an entry with success true.
BulkRes(code) == [success |-> TRUE, code |-> code]

\* The handler's outcomes for one item: the status it answers with and the
\* status of the record it inserted, "none" when it inserted nothing.
IssueOutcomes(item, associated) ==
  IF ~associated THEN { [code |-> 400, status |-> "none"] }
  ELSE IF item = "validatedOnly" THEN { [code |-> 500, status |-> "none"] }
  ELSE { [code |-> 500, status |-> "none"],
         [code |-> 500, status |-> "PENDING"],
         [code |-> 201, status |-> "MINTED"],
         [code |-> 201, status |-> "PENDING"] }

BulkIssueStart ==
  /\ bulk.pc = "idle"
  /\ \E college \in Colleges, items \in BulkLists :
       bulk' = [NoBulk EXCEPT !.pc = "run", !.college = college,
                              !.items = items]
  /\ UNCHANGED <<store, contract, iss, wk, out, recorded, qr, batch, auth, db>>

BulkIssueItem ==
  /\ bulk.pc = "run"
  /\ bulk.next <= Len(bulk.items)
  /\ \E associated \in BOOLEAN :
       \E o \in IssueOutcomes(bulk.items[bulk.next], associated) :
         bulk' = [bulk EXCEPT
                    !.results = Append(@, BulkRes(o.code)),
                    !.created =
                      IF o.status = "none" THEN @
                      ELSE Append(@, [item |-> bulk.next,
                                      college |-> Ref(bulk.college),
                                      apiCode |->
                                        GenerateApiCode(Ref(bulk.college)),
                                      status |-> o.status]),
                    !.next = @ + 1]
  /\ UNCHANGED <<store, contract, iss, wk, out, recorded, qr, batch, auth, db>>

BulkIssueRespond ==
  /\ bulk.pc = "run"
  /\ bulk.next > Len(bulk.items)
  /\ bulk' = [bulk EXCEPT !.pc = "done"]
  /\ UNCHANGED <<store, contract, iss, wk, out, recorded, qr, batch, auth, db>>

BulkNext == BulkIssueStart \/ BulkIssueItem \/ BulkIssueRespond

BulkSpec == Init /\ [][BulkNext]_vars

\* ---- AuthController.login rate limiting (part_004 151-286, 428-435) ----
MaxTime == 16
Ticks == {LockoutTime - 1, LockoutTime, LockoutTime + 1}
LoginResults == {"invalid", "inactive", "ok", "error"}

\* Lines 162-164: the key is locked out.
LockedOut_Inclusive(a, now) ==
  a.count >= MaxAttempts /\ now - a.lastAttempt <= LockoutTime

LockedOut(a, now) ==
  a.count >= MaxAttempts /\ now - a.lastAttempt < LockoutTime

\* recordFailedAttempt (lines 281-286).
RecordFailedAttempt(a, now) == [count |-> a.count + 1, lastAttempt |-> now]

\* Lines 155-176: the rate-limit check.  A locked key is answered 429 at
\* once; otherwise an expired entry is deleted and the handler goes on to
\* its awaits (cache, user lookup, password comparison).
LoginStart(s, k) ==
  /\ auth.ses[s].pc = "idle"
  /\ LET a == auth.attempts[k] IN
       IF LockedOut(a, auth.now)
       THEN auth' = [auth EXCEPT !.resp = [key |-> k, result |-> "locked"]]
       ELSE auth' = [auth EXCEPT
                       !.ses[s] = [pc |-> "checking", key |-> k],
                       !.attempts[k] =
                         IF a.count >= MaxAttempts THEN NoAttempts ELSE @,
                       !.failed[k] =
                         IF a.count >= MaxAttempts THEN NoAttempts ELSE @]
  /\ UNCHANGED <<store, contract, iss, wk, out, recorded, qr, batch, bulk, db>>

\* Lines 195-278: unknown user or wrong password records a failure (401);
\* a deactivated account is answered 401 without recording; a success
\* deletes the key's entry (200); an exception is answered 500.
LoginFinish(s) ==
  /\ auth.ses[s].pc = "checking"
  /\ LET k == auth.ses[s].key IN
       \E r \in LoginResults :
         auth' = [auth EXCEPT
                    !.ses[s] = IdleSession,
                    !.resp = [key |-> k, result |-> r],
                    !.attempts[k] =
                      CASE r = "invalid" -> RecordFailedAttempt(@, auth.now)
                        [] r = "ok" -> NoAttempts
                        [] OTHER -> @,
                    !.failed[k] =
                      CASE r = "invalid" ->
                             [count |-> @.count + 1, lastAttempt |-> auth.now]
                        [] r = "ok" -> NoAttempts
                        [] OTHER -> @]
  /\ UNCHANGED <<store, contract, iss, wk, out, recorded, qr, batch, bulk, db>>

\* cleanup (lines 428-435), run by the interval timer.
Cleanup ==
  /\ auth' = [auth EXCEPT
                !.attempts = [k \in AuthKeys |->
                                IF auth.now - @[k].lastAttempt > LockoutTime
                                THEN NoAttempts ELSE @[k]],
                !.failed = [k \in AuthKeys |->
                              IF auth.now - auth.attempts[k].lastAttempt
                                   > LockoutTime
                              THEN NoAttempts ELSE @[k]]]
  /\ UNCHANGED <<store, contract, iss, wk, out, recorded, qr, batch, bulk, db>>

\* Date.now() advances.
Tick ==
  /\ \E d \in Ticks :
       /\ auth.now + d <= MaxTime
       /\ auth' = [auth EXCEPT !.now = @ + d]
  /\ UNCHANGED <<store, contract, iss, wk, out, recorded, qr, batch, bulk, db>>

AuthNext ==
  \/ \E s \in Sessions, k \in AuthKeys : LoginStart(s, k)
  \/ \E s \in Sessions : LoginFinish(s)
  \/ Cleanup
  \/ Tick

AuthSpec == Init /\ [][AuthNext]_vars

\* ---- DatabaseConfig reconnection (part_005 71-120, 153-174) ----
MaxListeners == 2
MaxTimers == 4
ErrorNames == {"MongoNetworkError", "MongoTimeoutError", "MongoParseError"}

\* handleDisconnection (lines 166-174), one call.
HandleDisconnection(d) ==
  IF d.connectionRetries < MaxRetries
  THEN [d EXCEPT !.connectionRetries = @ + 1, !.timers = @ + 1]
  ELSE d

\* handleConnectionError (lines 153-164), one call.
HandleConnectionError(d, name) ==
  IF name \in {"MongoNetworkError", "MongoTimeoutError"}
  THEN HandleDisconnection(d)
  ELSE d

\* emit: every registered listener runs, in turn, before control returns.
RECURSIVE Emit(_, _, _)
Emit(d, name, n) ==
  IF n = 0 THEN d
  ELSE Emit(IF name = "disconnected" THEN HandleDisconnection(d)
            ELSE HandleConnectionError(d, name), name, n - 1)

Observed(d, event) ==
  [d EXCEPT !.last = [event |-> event, before |-> db.connectionRetries,
                      after |-> d.connectionRetries,
                      scheduled |-> d.timers - db.timers]]

\* connect (lines 71-120): success resets the counter and registers one
\* more set of handlers; failure falls back to the mock connection.
Connected(d) ==
  [d EXCEPT !.connection = "live", !.connectionRetries = 0,
            !.listeners = @ + 1]

ConnectFailed(d) == [d EXCEPT !.connection = "mock"]

\* The connect call of server start-up.
Connect ==
  /\ db.connection = "null"
  /\ \/ db' = Observed(Connected(db), "connected")
     \/ db' = Observed(ConnectFailed(db), "failed")
  /\ UNCHANGED <<store, contract, iss, wk, out, recorded, qr, batch, bulk, auth>>

\* A reconnect timeout set by a handler fires and calls connect.
Reconnect ==
  /\ db.timers > 0
  /\ LET d == [db EXCEPT !.timers = @ - 1] IN
       \/ /\ db.listeners < MaxListeners
          /\ db' = [Connected(d) EXCEPT
                      !.last = [event |-> "connected",
                                before |-> db.connectionRetries,
                                after |-> 0, scheduled |-> 0]]
       \/ db' = [ConnectFailed(d) EXCEPT
                   !.last = [event |-> "failed",
                             before |-> db.connectionRetries,
                             after |-> db.connectionRetries,
                             scheduled |-> 0]]
  /\ UNCHANGED <<store, contract, iss, wk, out, recorded, qr, batch, bulk, auth>>

\* mongoose.connection emits 'disconnected'.
Disconnected ==
  /\ db.listeners > 0
  /\ db.timers + db.listeners <= MaxTimers
  /\ db' = Observed(Emit(db, "disconnected", db.listeners), "disconnected")
  /\ UNCHANGED <<store, contract, iss, wk, out, recorded, qr, batch, bulk, auth>>

\* mongoose.connection emits 'error'.
ConnectionError ==
  /\ db.listeners > 0
  /\ db.timers + db.listeners <= MaxTimers
  /\ \E name \in ErrorNames :
       db' = Observed(Emit(db, name, db.listeners), name)
  /\ UNCHANGED <<store, contract, iss, wk, out, recorded, qr, batch, bulk, auth>>

\* mongoose.connection emits 'reconnected' (lines 100-103).
Reconnected ==
  /\ db.listeners > 0
  /\ db' = Observed([db EXCEPT !.connectionRetries = 0], "reconnected")
  /\ UNCHANGED <<store, contract, iss, wk, out, recorded, qr, batch, bulk, auth>>

DbNext ==
  \/ Connect
  \/ Reconnect
  \/ Disconnected
  \/ ConnectionError
  \/ Reconnected

DbSpec == Init /\ [][DbNext]_vars

\* ------------------------------------------------------------------ claims
AnchorSet(rec) ==
  \/ rec.tokenId # Undefined
  \/ rec.transactionHash # Null
  \/ rec.blockNumber # Undefined

VerifyReply == out.kind \in VerifyKinds /\ out.code = 200

AllowedTransitions ==
  { <<"PENDING", "MINTED">>, <<"MINTED", "VERIFIED">>,
    <<"PENDING", "REVOKED">>, <<"MINTED", "REVOKED">>,
    <<"VERIFIED", "REVOKED">> }

C2_NoLostUpdate ==
  ( /\ Exists(Cert)
    /\ \A w \in Workers : wk[w].pc # "loaded"
    /\ recorded.lookup = 0 )
    => store[Cert].verificationCount = recorded.verify

\* C3: the stored verificationCount never decreases from one state to the
\* next.
C3_CountNonDecreasing ==
  [][ Exists(Cert)
        => store'[Cert].verificationCount >= store[Cert].verificationCount
    ]_vars

\* C4: once the issuance and every revocation have finished, a credential
\* on which a revocation was stored (its reason is set; only a revocation
\* that loaded the record after the first save can have done so) has the
\* stored status REVOKED.
C4_RevokeNotUndone ==
  ( /\ iss.pc = "done"
    /\ \A w \in Workers : wk[w].pc # "loaded"
    /\ Exists(Cert)
    /\ store[Cert].revocationReason # Null )
    => /\ store[Cert].status = "REVOKED"
       /\ store[Cert].revocationReason \in Reasons

\* C5: an issuance whose mint call failed has answered success with a
\* warning; its record has an access code and a verification link, no
\* tokenId / transactionHash / blockNumber, and status PENDING (REVOKED
\* once a revocation was stored on it); every verification of it reports
\* isValid false.
C5_MintFailure ==
  (iss.pc = "done" /\ iss.mint = "failed")
    => /\ iss.resp = IssueResp(201, TRUE, TRUE)
       /\ store[Cert].apiCode # Null
       /\ store[Cert].verificationLink # Null
       /\ ~AnchorSet(store[Cert])
       /\ \/ store[Cert].status = "PENDING"
          \/ /\ store[Cert].status = "REVOKED"
             /\ store[Cert].revocationReason # Null
       /\ VerifyReply => ~out.isValid

\* C5 witness: after the failed mint the record is PENDING and a
\* verification of it has just answered.
C5_Witness ==
  /\ iss.pc = "done" /\ iss.mint = "failed"
  /\ store[Cert].status = "PENDING"
  /\ VerifyReply /\ out.status = "PENDING" /\ ~out.isValid

\* C6: without a contract (mock client) and with the store accepting
\* writes, an issuance whose mint call succeeded has answered success
\* without a warning and its record is MINTED (REVOKED once revoked) with
\* the returned tokenId, transactionHash and blockNumber; the first
\* verification after it, when the record is still MINTED, reports isValid
\* true and verificationCount 1.
C6_MintSuccess ==
  (~contract /\ iss.pc = "done" /\ iss.mint = "ok" /\ ~iss.outage)
    => /\ iss.resp = IssueResp(201, TRUE, FALSE)
       /\ store[Cert].status \in {"MINTED", "REVOKED"}
       /\ store[Cert].tokenId = iss.doc.tokenId
       /\ store[Cert].transactionHash = iss.doc.transactionHash
       /\ store[Cert].blockNumber = iss.doc.blockNumber
       /\ (VerifyReply /\ recorded.verify = 1 /\ recorded.lookup = 0
             /\ out.status = "MINTED")
            => (out.isValid /\ out.verificationCount = 1)

\* C7: an issuance whose first save succeeded (the record exists) ends
\* with a success response.
C7_SuccessOncePersisted ==
  (iss.pc = "done" /\ Exists(Cert)) => iss.resp.success

\* C8: the record issued in this run has an anchoring field set only if the
\* mint call returned success, and is never PENDING with an anchoring field
\* set.
C8_AnchorOnlyAfterSuccess ==
  (iss.pc # "idle" /\ Exists(Cert))
    => /\ AnchorSet(store[Cert]) => iss.mint = "ok"
       /\ ~(store[Cert].status = "PENDING" /\ AnchorSet(store[Cert]))

\* C9: every issuance request that has started eventually answers its
\* caller, whatever the ledger does.
C9_IssuanceResponds ==
  (iss.pc # "idle") ~> (iss.pc = "done")

\* C10: the isValid flag of a verification equals (status is MINTED or
\* VERIFIED) and (no ledger signal or the ledger reports valid).
C10_ValidityFormula ==
  VerifyReply
    => (out.isValid <=> ( /\ out.status \in {"MINTED", "VERIFIED"}
                          /\ (NoSignal(out.sig) \/ out.sig = "valid") ))

\* C11: when the ledger call of a verification (by identifier, fingerprint
\* or QR payload) throws, the verification is not aborted: it answers 200,
\* the stored verificationCount goes up by one, and the verdict is the one
\* a verification with no ledger signal gives for the same stored status.
C11_LedgerErrorSwallowed ==
  [][ \A w \in Workers :
        ( /\ wk[w].pc = "loaded" /\ wk[w].kind \in VerifyKinds
          /\ wk'[w].pc = "idle" /\ out'.sig = "error" )
          => /\ out'.code = 200
             /\ store'[Cert].verificationCount
                  = store[Cert].verificationCount + 1
             /\ out'.isValid = IsValid(out'.status, "none") ]_vars

C11_Witness ==
  /\ contract /\ VerifyReply /\ out.kind = "verifyById"
  /\ out.sig = "error" /\ out.status = "MINTED" /\ out.isValid
  /\ store[Cert].verificationCount = 2

\* C12: a revocation that found the credential has left it REVOKED with the
\* reason stored, with or without an anchor token and whether the ledger
\* revocation succeeded or failed.
C12_RevokeAlwaysLands ==
  (out.kind = "revoke" /\ out.code # 404)
    => /\ store[Cert].status = "REVOKED"
       /\ store[Cert].revocationReason \in Reasons

\* C13: once a credential is REVOKED no later request changes its status
\* or replaces the reason stored by the first revocation.
C13_FirstReasonKept ==
  [][ (Exists(Cert) /\ store[Cert].status = "REVOKED")
        => /\ store'[Cert].status = "REVOKED"
           /\ store'[Cert].revocationReason = store[Cert].revocationReason
    ]_vars

\* C14: with requests served one at a time, the stored verificationCount
\* equals the number of verifications and lookups recorded so far, and each
\* verification response reports the count after its own increment.
C14_SerialCount ==
  /\ Exists(Cert)
       => store[Cert].verificationCount = recorded.verify + recorded.lookup
  /\ VerifyReply
       => out.verificationCount = recorded.verify + recorded.lookup

C14_Witness ==
  /\ VerifyReply /\ out.verificationCount = 3
  /\ recorded.verify = 3 /\ store[Cert].verificationCount = 3

\* C15: an issuance reports a uniqueness violation at the first save as a
\* failure only after it has regenerated the values and saved again, that
\* is after more than one save attempt.
C15_RetryBeforeFatal ==
  (iss.pc = "done" /\ iss.resp.code = 500 /\ iss.doc = Absent)
    => iss.attempts > 1

\* C16: an issuance rejected because the issuer belongs to no organization
\* has created no record, computed no fingerprint or access code, attempted
\* no save and made no ledger call.
C16_NotAssociated ==
  (iss.resp.code = 400)
    => /\ iss.pc = "done" /\ ~iss.resp.success
       /\ ~Exists(Cert)
       /\ iss.doc = Absent /\ iss.attempts = 0
       /\ iss.mint = "none"

C16_Witness ==
  /\ iss.resp.code = 400 /\ ~Exists(Cert)
  /\ out.kind = "verifyById" /\ out.code = 404

\* C17: once a record exists no request changes its stored certificateHash
\* or apiCode.
C17_KeysImmutable ==
  [][ Exists(Cert)
        => /\ store'[Cert].certificateHash = store[Cert].certificateHash
           /\ store'[Cert].apiCode = store[Cert].apiCode ]_vars

C17_Witness ==
  /\ iss.pc = "done" /\ iss.mint = "ok"
  /\ store[Cert].status = "REVOKED" /\ store[Cert].verificationCount = 2
  /\ store[Cert].certificateHash = iss.doc.certificateHash
  /\ store[Cert].apiCode = iss.doc.apiCode

\* What a QR verification has to go on with for a payload, given how the
\* payload decodes.
Decoded(result) ==
  IF result.type = "certificateId" THEN FindById(result.value)
  ELSE IF result.type = "certificateHash" THEN FindByHash(result.value)
  ELSE "none"

\* C18: verification by QR payload goes on with the credential the payload
\* decodes to: the canonical URL embedding an identifier (the string an
\* issued QR code holds), the alternate URL embedding a fingerprint, a bare
\* identifier and a bare fingerprint each resolve to the credential, and a
\* payload that decodes to none of these is answered not found.
C18_QRDispatch ==
  (qr.pc = "lookup") => qr.found = Decoded(ValidateQRData(qr.data))

\* C19: decoding the URL that encodes an identifier gives type identifier
\* and that identifier; decoding the URL that encodes a fingerprint gives
\* type fingerprint and that fingerprint; decoding the string an issuance
\* puts into the stored QR code gives type identifier and the identifier
\* of the issued record.
C19_RoundTrip ==
  (qr.pc = "validated" /\ qr.enc # "raw")
    => /\ qr.result.isValid
       /\ qr.result.value = qr.src
       /\ qr.result.type = IF qr.enc = "hash" THEN "certificateHash"
                           ELSE "certificateId"

C19_Witness ==
  /\ qr.pc = "validated" /\ qr.enc = "issue"
  /\ qr.data = BaseUrl \o <<VerifyPath>> \o BaseUrl \o <<VerifyPath>>
                 \o IdString(Cert)
  /\ qr.result = QRResult("certificateId", IdString(Cert), TRUE)

\* C20: a payload of exactly 24 hex digits is classified as an identifier;
\* otherwise one of exactly 64 hex digits as a fingerprint; otherwise one
\* ending in /verify/<24 hex> or /verify/hash/<64 hex> as the embedded
\* identifier or fingerprint; otherwise as unrecognized.  A payload of 64
\* hex digits is looked up by fingerprint only, never by identifier.
C20_Classification ==
  LET s == qr.data
      r == qr.result
      tailId == { k \in 1..Len(s) :
                    s[k] = VerifyPath /\ HexLen(SubSeq(s, k + 1, Len(s))) = IdLen
                    /\ \A j \in k + 1..Len(s) : s[j].hex > 0 }
      tailHash == { k \in 1..Len(s) - 1 :
                      s[k] = VerifyPath /\ s[k + 1] = HashPath
                      /\ HexLen(SubSeq(s, k + 2, Len(s))) = HashLen
                      /\ \A j \in k + 2..Len(s) : s[j].hex > 0 }
      bare == \A j \in 1..Len(s) : s[j].hex > 0
  IN
  /\ (qr.pc = "validated")
       => IF bare /\ HexLen(s) = IdLen
          THEN r = QRResult("certificateId", s, TRUE)
          ELSE IF bare /\ HexLen(s) = HashLen
          THEN r = QRResult("certificateHash", s, TRUE)
          ELSE IF tailId # {}
          THEN /\ r.type = "certificateId" /\ r.isValid
               /\ \E k \in tailId : r.value = SubSeq(s, k + 1, Len(s))
          ELSE IF tailHash # {}
          THEN /\ r.type = "certificateHash" /\ r.isValid
               /\ \E k \in tailHash : r.value = SubSeq(s, k + 2, Len(s))
          ELSE r.type = "unknown" /\ ~r.isValid
  /\ (qr.pc = "lookup" /\ bare /\ HexLen(s) = HashLen)
       => ~qr.triedId /\ qr.found = FindByHash(s)

C20_Witness ==
  /\ qr.pc = "lookup" /\ qr.enc = "raw"
  /\ qr.data = HashString("h2")
  /\ ~qr.triedId /\ qr.found = Cert

\* C21: without a contract (mock client) no ledger operation fails: the
\* mint call succeeds, no verification ends with a thrown ledger call, and
\* a revocation that found the credential answers 200.
C21_MockNeverFails ==
  (~contract)
    => /\ iss.mint # "failed"
       /\ VerifyReply => out.sig # "error"
       /\ (out.kind = "revoke" /\ out.code # 404) => out.code = 200

\* Entries of a batch up to index i that succeeded on credential c.
Verified(c, i) ==
  { j \in 1..i : j <= Len(batch.results) /\ batch.results[j].success
                 /\ BatchTarget(batch.items[j]) = c }

\* C22: a batch verification of n items answers n results, the i-th one
\* carrying the i-th item; an item that is not found has success false; a
\* successful entry reports the count its credential has after the
\* successful entries up to it, and each credential's stored count is the
\* number of successful entries on it.
C22_BatchVerify ==
  (batch.pc = "done")
    => /\ Len(batch.results) = Len(batch.items)
       /\ \A i \in 1..Len(batch.items) :
            /\ batch.results[i].identifier = batch.items[i]
            /\ BatchTarget(batch.items[i]) = "none"
                 => ~batch.results[i].success
            /\ batch.results[i].success
                 => batch.results[i].verificationCount
                      = Cardinality(Verified(BatchTarget(batch.items[i]), i))
       /\ \A c \in CertIds :
            Exists(c) => store[c].verificationCount
                           = Cardinality(Verified(c, Len(batch.items)))

C22_Witness ==
  /\ batch.pc = "done" /\ Len(batch.items) = 3
  /\ ~batch.results[1].success /\ BatchTarget(batch.items[1]) = "none"
  /\ ~batch.results[2].success /\ BatchTarget(batch.items[2]) = Other
  /\ batch.results[3].success /\ batch.results[3].verificationCount = 1
  /\ store[Other].verificationCount = 1

\* C23: while the issuance of a credential has not answered, no
\* verification or lookup (by identifier, fingerprint, QR payload or access
\* code) has found the credential.
C23_NotFoundBeforeResponse ==
  (iss.pc \notin {"idle", "done"})
    => \A w \in Workers :
         ~(wk[w].pc = "loaded" /\ wk[w].kind \in RecordingKinds)

\* C24: a credential left PENDING by an issuance whose mint call failed
\* eventually becomes MINTED with its anchoring fields set, the ledger
\* answering every call made to it.
C24_MintRetried ==
  (iss.pc = "done" /\ iss.mint = "failed" /\ iss.resp.warning
     /\ store[Cert].status = "PENDING")
    ~> (store[Cert].status = "MINTED" /\ AnchorSet(store[Cert]))

\* C25: the step that ends a verification changes nothing in the store but
\* the verificationCount and lastVerified of the credential it resolved,
\* and a request that finds no credential changes nothing in the store.
C25_VerifyFrame ==
  [][ /\ \A w \in Workers :
           ( /\ wk[w].pc = "loaded" /\ wk[w].kind \in VerifyKinds
             /\ wk'[w].pc = "idle" )
             => /\ store'[Other] = store[Other]
                /\ \A f \in DOMAIN store[Cert] \
                              {"verificationCount", "lastVerified"} :
                     store'[Cert][f] = store[Cert][f]
      /\ (out'.code = 404) => store' = store ]_vars

C25_Witness ==
  /\ VerifyReply /\ out.kind = "verifyByHash" /\ out.verificationCount = 1
  /\ out.status = "PENDING" /\ store[Cert].status = "REVOKED"
  /\ store[Cert].verificationCount = 1
  /\ store[Cert].revocationReason = "fraud"

\* C26: within one issuance the record is saved, then link and QR code are
\* saved, then the mint call is made, at most once, and only then a MINTED
\* status is saved; no mint call is made for a record that was not saved.
C26_StepOrder ==
  /\ iss.mintCalls <= 1
  /\ (iss.mintCalls = 0) <=> (iss.mint = "none")
  /\ (iss.mintCalls = 1)
       => /\ iss.attempts = 1 /\ Exists(Cert)
          /\ store[Cert].verificationLink # Null
          /\ store[Cert].qrCode # Null
  /\ (iss.pc = "done" /\ ~Exists(Cert)) => iss.mintCalls = 0
  /\ (iss.pc # "idle" /\ Exists(Cert) /\ store[Cert].status = "MINTED")
       => iss.mint = "ok"

C26_Witness ==
  /\ iss.pc = "done" /\ iss.mintCalls = 1 /\ iss.mint = "failed"
  /\ store[Cert].status = "PENDING" /\ store[Cert].verificationLink # Null

\* C27: the access code of every credential an issuance creates starts
\* with the code of the issuing principal's organization.
C27_ApiCodeOrg ==
  \A k \in 1..Len(bulk.created) :
    bulk.created[k].apiCode.org = bulk.college.code

\* C29: the answer of the batch issue route has one entry per item, in
\* order, and an entry reports success only if the item's credential was
\* created.
C29_BulkIssue ==
  (bulk.pc = "done")
    => /\ Len(bulk.results) = Len(bulk.items)
       /\ \A i \in 1..Len(bulk.items) :
            bulk.results[i].success
              => \E k \in 1..Len(bulk.created) : bulk.created[k].item = i

\* The key has at least five failures recorded since its count was last
\* cleared, the last of them less than fifteen minutes ago.
Locked(k) ==
  /\ auth.failed[k].count >= 5
  /\ auth.now - auth.failed[k].lastAttempt < 15

C30_BoundedReconnect ==
  /\ db.connectionRetries \in 0..5
  /\ db.last.event \in {"disconnected", "MongoNetworkError", "MongoTimeoutError"}
       => IF db.last.before < 5
          THEN db.last.after = db.last.before + 1 /\ db.last.scheduled = 1
          ELSE db.last.after = db.last.before /\ db.last.scheduled = 0
  /\ db.last.event \in {"connected", "reconnected"} => db.last.after = 0

====
